---- MODULE Spec2Model ----
(***************************************************************************)
(* Model of choices-no-migrations/example/expenses: the Expense model with *)
(* its nested Tag(models.TextChoices) enumeration (models.py) and the      *)
(* creation scenario of tests.py.  The framework calls the source makes    *)
(* (TextChoices construction, Tag(value), Tag[name], .label, .choices,     *)
(* Expense.objects.create, save, full_clean, objects.get) are modelled by  *)
(* what Django and the Python enum / decimal modules do for them.          *)
(*                                                                         *)
(* Python strings are sequences of one-character strings, so that label    *)
(* derivation, width checks and decimal parsing are computed, not assumed. *)
(***************************************************************************)
EXTENDS Integers, Sequences, FiniteSets, TLC

VARIABLES decl, pc, table, store, defaulted, clock, last

vars == <<decl, pc, table, store, defaulted, clock, last>>

(***************************************************************************)
(* Bounds of the model.                                                    *)
(***************************************************************************)
MaxRecords == 2
MaxClock == 2

(***************************************************************************)
(* Characters and the str methods used when a label is derived.            *)
(***************************************************************************)
UpperChars ==
    <<"A","B","C","D","E","F","G","H","I","J","K","L","M",
      "N","O","P","Q","R","S","T","U","V","W","X","Y","Z">>

LowerChars ==
    <<"a","b","c","d","e","f","g","h","i","j","k","l","m",
      "n","o","p","q","r","s","t","u","v","w","x","y","z">>

IsUpper(c) == \E i \in DOMAIN UpperChars : UpperChars[i] = c

IsLower(c) == \E i \in DOMAIN LowerChars : LowerChars[i] = c

IsCased(c) == IsUpper(c) \/ IsLower(c)

ToUpper(c) ==
    IF IsLower(c)
    THEN UpperChars[CHOOSE i \in DOMAIN LowerChars : LowerChars[i] = c]
    ELSE c

ToLower(c) ==
    IF IsUpper(c)
    THEN LowerChars[CHOOSE i \in DOMAIN UpperChars : UpperChars[i] = c]
    ELSE c

\* str.replace("_", " ")
ReplaceUnderscore(s) == [i \in DOMAIN s |-> IF s[i] = "_" THEN " " ELSE s[i]]

\* str.title(): a cased character is upper-cased when it starts a word (the
\* previous character is not cased) and lower-cased otherwise.
Title(s) ==
    [i \in DOMAIN s |->
        IF i = 1 \/ ~IsCased(s[i - 1]) THEN ToUpper(s[i]) ELSE ToLower(s[i])]

(***************************************************************************)
(* The class body of Expense.Tag: the assignments in declaration order.    *)
(***************************************************************************)
TagDeclSwapped ==
    << [name |-> <<"C","L","O","T","H","I","N","G">>, value |-> <<"C","L">>],
       [name |-> <<"F","O","O","D">>, value |-> <<"H","S">>],
       [name |-> <<"H","O","U","S","I","N","G">>, value |-> <<"F","D">>],
       [name |-> <<"T","R","A","N","S","P","O","R","T","A","T","I","O","N">>,
        value |-> <<"T","R">>],
       [name |-> <<"U","T","I","L","I","T","I","E","S">>, value |-> <<"U","T">>] >>

TagDecl ==
    << [name |-> <<"C","L","O","T","H","I","N","G">>, value |-> <<"C","L">>],
       [name |-> <<"F","O","O","D">>, value |-> <<"F","D">>],
       [name |-> <<"H","O","U","S","I","N","G">>, value |-> <<"H","S">>],
       [name |-> <<"T","R","A","N","S","P","O","R","T","A","T","I","O","N">>,
        value |-> <<"T","R">>],
       [name |-> <<"U","T","I","L","I","T","I","E","S">>, value |-> <<"U","T">>] >>

(***************************************************************************)
(* Construction of a TextChoices class from a class body.                  *)
(*  - the enum class dictionary refuses a name bound twice (TypeError);    *)
(*  - an entry whose value was already given to an earlier entry is an     *)
(*    alias of it, and the Choices metaclass returns enum.unique(cls),     *)
(*    which raises ValueError when the class has an alias;                 *)
(*  - a member declared with a bare value gets the label                   *)
(*    key.replace("_", " ").title().                                       *)
(***************************************************************************)
HasReusedName(d) ==
    \E i, j \in DOMAIN d : i < j /\ d[i].name = d[j].name

IsAlias(d, j) == \E i \in 1..(j - 1) : d[i].value = d[j].value

HasAlias(d) == \E j \in DOMAIN d : IsAlias(d, j)

LabelOf(name) == Title(ReplaceUnderscore(name))

MakeMember(e) ==
    [kind |-> "member", name |-> e.name, value |-> e.value, label |-> LabelOf(e.name)]

ConstructNoUnique(d) ==
    IF HasReusedName(d)
    THEN [status |-> "TypeError", members |-> <<>>]
    ELSE [status |-> "ok", members |-> [i \in DOMAIN d |-> MakeMember(d[i])]]

Construct(d) ==
    IF HasReusedName(d)
    THEN [status |-> "TypeError", members |-> <<>>]
    ELSE IF HasAlias(d)
    THEN [status |-> "ValueError", members |-> <<>>]
    ELSE [status |-> "ok", members |-> [i \in DOMAIN d |-> MakeMember(d[i])]]

(***************************************************************************)
(* Lookups on the constructed class.                                       *)
(***************************************************************************)
Values(t) == {t[i].value : i \in DOMAIN t}

Names(t) == {t[i].name : i \in DOMAIN t}

\* Tag(value): the member with that value, or ValueError.
ByValue(t, v) ==
    IF \E i \in DOMAIN t : t[i].value = v
    THEN [status |-> "ok", value |-> t[CHOOSE i \in DOMAIN t : t[i].value = v]]
    ELSE [status |-> "ValueError"]

\* Tag[name]: the member with that name, or KeyError.
ByName(t, n) ==
    IF \E i \in DOMAIN t : t[i].name = n
    THEN [status |-> "ok", value |-> t[CHOOSE i \in DOMAIN t : t[i].name = n]]
    ELSE [status |-> "KeyError"]

\* Tag.choices: the (value, label) pairs of the members, in definition order.
ChoicesReversed(t) ==
    [i \in DOMAIN t |-> <<t[Len(t) + 1 - i].value, t[Len(t) + 1 - i].label>>]

Choices(t) == [i \in DOMAIN t |-> <<t[i].value, t[i].label>>]

(***************************************************************************)
(* Python values given as a tag: an enum member (a str subclass whose      *)
(* string content is its value) or a plain str.                            *)
(***************************************************************************)
Str(chars) == [kind |-> "str", value |-> chars]

StrOf(x) == x.value

\* str.__eq__, which the members inherit.
PyEq(x, y) == StrOf(x) = StrOf(y)

EmptyStr == <<>>

(***************************************************************************)
(* The tag field: CharField(max_length=2, choices=Tag.choices).            *)
(***************************************************************************)
MaxLength == 2

\* Field.validate, as run by full_clean(): a non-empty value must equal the
\* key of one of the choices; an empty one is refused because blank=False.
FieldValidate(t, x) ==
    IF StrOf(x) = EmptyStr
    THEN "blank"
    ELSE IF \E i \in DOMAIN Choices(t) : Choices(t)[i][1] = StrOf(x)
    THEN "ok"
    ELSE "invalid_choice"

\* validate(candidate): the field's validation, then the member for the code.
ValidateCoercing(t, x) ==
    IF FieldValidate(t, x) = "ok"
    THEN [status |-> "ok", value |-> ByValue(t, StrOf(x)).value]
    ELSE [status |-> "ok", value |-> t[1]]

Validate(t, x) ==
    IF FieldValidate(t, x) = "ok"
    THEN [status |-> "ok", value |-> ByValue(t, StrOf(x)).value]
    ELSE [status |-> "ValidationError", code |-> FieldValidate(t, x)]

\* CharField.get_prep_value: the str written to the tag column.
TagDbValueAsName(x) == IF x.kind = "member" THEN x.name ELSE x.value

TagDbValue(x) == StrOf(x)

(***************************************************************************)
(* The amount field: DecimalField(decimal_places=2, max_digits=20).        *)
(* A Decimal is a sign, a coefficient (digits, most significant first,     *)
(* without leading zeros; zero is <<0>>) and an exponent.                  *)
(***************************************************************************)
DecimalPlaces == 2
MaxDigits == 20

DigitChars == <<"0","1","2","3","4","5","6","7","8","9">>

IsDigit(c) == \E i \in DOMAIN DigitChars : DigitChars[i] = c

DigitVal(c) == (CHOOSE i \in DOMAIN DigitChars : DigitChars[i] = c) - 1

DigitChar(n) == DigitChars[n + 1]

Zeros(n) == [i \in 1..n |-> 0]

\* The digits of s from its first non-zero one; <<0>> when there is none.
StripZeros(ds) ==
    IF \A i \in DOMAIN ds : ds[i] = 0
    THEN <<0>>
    ELSE SubSeq(ds, CHOOSE i \in DOMAIN ds :
                        ds[i] # 0 /\ \A j \in 1..(i - 1) : ds[j] = 0, Len(ds))

\* decimal.Decimal(str) for the plain notation [-]digits[.digits]; anything
\* else is refused (DecimalField.to_python turns it into a ValidationError).
ToPython(s) ==
    LET neg  == Len(s) > 0 /\ s[1] = "-"
        body == IF neg THEN Tail(s) ELSE s
        dots == {i \in DOMAIN body : body[i] = "."}
        dot  == IF dots = {} THEN Len(body) + 1 ELSE CHOOSE i \in dots : TRUE
        ipart == SubSeq(body, 1, dot - 1)
        fpart == SubSeq(body, dot + 1, Len(body))
        all   == ipart \o fpart
    IN  IF Cardinality(dots) > 1 \/ Len(all) = 0
           \/ \E i \in DOMAIN all : ~IsDigit(all[i])
        THEN [status |-> "ValidationError"]
        ELSE [status |-> "ok",
              value |-> [neg |-> neg,
                         digits |-> StripZeros([i \in DOMAIN all |-> DigitVal(all[i])]),
                         exp |-> 0 - Len(fpart)]]

IsZero(d) == d.digits = <<0>>

\* The coefficient plus one.
RECURSIVE Increment(_)
Increment(ds) ==
    IF Len(ds) = 0 THEN <<1>>
    ELSE IF ds[Len(ds)] < 9
    THEN SubSeq(ds, 1, Len(ds) - 1) \o <<ds[Len(ds)] + 1>>
    ELSE Increment(SubSeq(ds, 1, Len(ds) - 1)) \o <<0>>

\* Decimal._rescale(exp, ROUND_HALF_EVEN): the coefficient at exponent exp.
Rescale(d, exp) ==
    IF d.exp >= exp
    THEN [d EXCEPT !.digits = IF IsZero(d) THEN <<0>> ELSE d.digits \o Zeros(d.exp - exp),
                   !.exp = exp]
    ELSE LET n == Len(d.digits) + d.exp - exp
             kept == IF n > 0 THEN SubSeq(d.digits, 1, n) ELSE <<0>>
             rest == IF n >= 0 THEN SubSeq(d.digits, n + 1, Len(d.digits)) ELSE <<1>>
             half == rest[1] = 5 /\ \A i \in 2..Len(rest) : rest[i] = 0
             even == n <= 0 \/ kept[Len(kept)] % 2 = 0
             up   == rest[1] >= 5 /\ ~(half /\ even)
         IN  [d EXCEPT !.digits = IF up THEN StripZeros(Increment(kept)) ELSE kept,
                       !.exp = exp]

\* Decimal.quantize(Decimal(1).scaleb(-places)) in a context of precision prec:
\* InvalidOperation when the result needs more than prec digits.
Quantize(d, places, prec) ==
    IF IsZero(d)
    THEN [status |-> "ok", value |-> [d EXCEPT !.exp = 0 - places]]
    ELSE IF Len(d.digits) + d.exp + places > prec
    THEN [status |-> "InvalidOperation"]
    ELSE IF Len(Rescale(d, 0 - places).digits) > prec
    THEN [status |-> "InvalidOperation"]
    ELSE [status |-> "ok", value |-> Rescale(d, 0 - places)]

\* "{:f}".format(value) of a Decimal whose exponent is <= 0.
FormatF(d) ==
    LET f  == 0 - d.exp
        ds == IF Len(d.digits) > f THEN d.digits
              ELSE Zeros(f + 1 - Len(d.digits)) \o d.digits
        cs == [i \in DOMAIN ds |-> DigitChar(ds[i])]
        ip == SubSeq(cs, 1, Len(cs) - f)
        fp == SubSeq(cs, Len(cs) - f + 1, Len(cs))
    IN  (IF d.neg THEN <<"-">> ELSE <<>>) \o ip \o (IF f > 0 THEN <<".">> \o fp ELSE <<>>)

\* DecimalField.get_db_prep_save: to_python, then
\* utils.format_number(value, max_digits, decimal_places).
AmountDbValueUnrounded(s) ==
    IF ToPython(s).status # "ok"
    THEN [status |-> "ValidationError"]
    ELSE [status |-> "ok", value |-> FormatF(ToPython(s).value)]

AmountDbValue(s) ==
    IF ToPython(s).status # "ok"
    THEN [status |-> "ValidationError"]
    ELSE IF Quantize(ToPython(s).value, DecimalPlaces, MaxDigits).status # "ok"
    THEN [status |-> "InvalidOperation"]
    ELSE [status |-> "ok",
          value |-> FormatF(Quantize(ToPython(s).value, DecimalPlaces, MaxDigits).value)]

(***************************************************************************)
(* The when field: DateTimeField(default=now).  The default is a callable: *)
(* Model.__init__ calls it for every instance built without a when.        *)
(* A when argument is <<>> (not given) or <<t>> (given as t).               *)
(***************************************************************************)
Omitted == <<>>

\* default=now(): the clock read once, while models.py is imported.
DefaultWhenAtLoad(now) == 0

\* default=now: the clock read when the instance is built.
DefaultWhen(now) == now

ResolveWhen(w, now) == IF w = Omitted THEN DefaultWhen(now) ELSE w[1]

(***************************************************************************)
(* Inputs.                                                                 *)
(***************************************************************************)
Members(t) == {t[i] : i \in DOMAIN t}

RawTags ==
    { Str(<<"F","D">>), Str(<<"C","L">>), Str(<<"Z","Z">>), Str(<<"F","O","O">>) }

\* Tags given to a write.
TagInputs(t) == Members(t) \cup RawTags

\* Candidates given to validate.
CandidateTags(t) == TagInputs(t) \cup {Str(EmptyStr)}

Nines(n) == [i \in 1..n |-> "9"]

Amount1023 == <<"1","0",".","2","3">>

AmountInputs ==
    { Amount1023,
      <<"7">>,
      <<"1","0",".","2","3","5">>,
      <<"1","0",".","2","2","5">>,
      <<"0",".","0","0","5">>,
      <<"1","x">>,
      Nines(MaxDigits - DecimalPlaces) \o <<".","9","9">>,
      Nines(MaxDigits - DecimalPlaces + 1) \o <<".","9","9">>,
      Nines(MaxDigits - DecimalPlaces) \o <<".","9","9","5">> }

WhenInputs == {Omitted, <<0>>, <<MaxClock + 1>>}

(***************************************************************************)
(* State.                                                                  *)
(*   decl       the class body of Tag that the process loads               *)
(*   pc         "loading", "running", or "failed" (the import raised)      *)
(*   table      the members of Tag, in definition order                    *)
(*   store      the rows of the expenses table; a row's pk is its index    *)
(*   defaulted  the pks whose when was supplied by the field default       *)
(*   clock      django.utils.timezone.now()                                *)
(*   last       the outcome of the last call, as its caller sees it        *)
(***************************************************************************)
InitCommon ==
    /\ store = <<>>
    /\ defaulted = {}
    /\ clock = 0

\* The process after models.py has been imported.
Init ==
    /\ decl = TagDecl
    /\ pc = "running"
    /\ table = Construct(decl).members
    /\ last = [op |-> "load", status |-> Construct(decl).status]
    /\ InitCommon

\* Expense.objects.create(what='', when=w, amount=s, tag=x): Model.__init__
\* resolves the defaults, save() converts each attribute for its column and
\* inserts the row.  No validator runs (full_clean is not called by save).
\* A tag wider than max_length is refused by a backend that enforces the
\* column width and stored by one that does not.
CreateRegistering(tags, amounts, whens) ==
    /\ pc = "running"
    /\ Len(store) < MaxRecords
    /\ \E x \in tags, s \in amounts, w \in whens :
        /\ AmountDbValue(s).status = "ok"
        /\ Len(TagDbValue(x)) <= MaxLength
        /\ store' = Append(store, [what |-> EmptyStr, when |-> ResolveWhen(w, clock),
                                   amount |-> AmountDbValue(s).value,
                                   tag |-> TagDbValue(x)])
        /\ table' = IF TagDbValue(x) \in Values(table) THEN table
                    ELSE Append(table, MakeMember([name |-> TagDbValue(x),
                                                   value |-> TagDbValue(x)]))
        /\ defaulted' = IF w = Omitted THEN defaulted \cup {Len(store) + 1} ELSE defaulted
        /\ last' = [op |-> "create", status |-> "ok", pk |-> Len(store) + 1,
                    tag |-> x, amount |-> s, when |-> w]
    /\ UNCHANGED <<decl, pc, clock>>

Create(tags, amounts, whens) ==
    /\ pc = "running"
    /\ Len(store) < MaxRecords
    /\ \E x \in tags, s \in amounts, w \in whens :
       \E strict \in (IF Len(TagDbValue(x)) > MaxLength THEN BOOLEAN ELSE {FALSE}) :
        IF AmountDbValue(s).status # "ok"
        THEN /\ last' = [op |-> "create", status |-> AmountDbValue(s).status,
                         tag |-> x, amount |-> s, when |-> w]
             /\ UNCHANGED <<store, defaulted>>
        ELSE IF strict
        THEN /\ last' = [op |-> "create", status |-> "DataError",
                         tag |-> x, amount |-> s, when |-> w]
             /\ UNCHANGED <<store, defaulted>>
        ELSE /\ store' = Append(store, [what |-> EmptyStr,
                                        when |-> ResolveWhen(w, clock),
                                        amount |-> AmountDbValue(s).value,
                                        tag |-> TagDbValue(x)])
             /\ defaulted' = IF w = Omitted THEN defaulted \cup {Len(store) + 1}
                             ELSE defaulted
             /\ last' = [op |-> "create", status |-> "ok", pk |-> Len(store) + 1,
                         tag |-> x, amount |-> s, when |-> w]
    /\ UNCHANGED <<decl, pc, table, clock>>

\* expense.tag = x; expense.save() on a stored row.
UpdateTag(tags) ==
    /\ pc = "running"
    /\ \E pk \in DOMAIN store, x \in tags :
       \E strict \in (IF Len(TagDbValue(x)) > MaxLength THEN BOOLEAN ELSE {FALSE}) :
        IF strict
        THEN /\ last' = [op |-> "update", status |-> "DataError", pk |-> pk, tag |-> x]
             /\ UNCHANGED store
        ELSE /\ store' = [store EXCEPT ![pk].tag = TagDbValue(x)]
             /\ last' = [op |-> "update", status |-> "ok", pk |-> pk, tag |-> x]
    /\ UNCHANGED <<decl, pc, table, defaulted, clock>>

\* expense.amount = s; expense.save() on a stored row.
UpdateAmount(amounts) ==
    /\ pc = "running"
    /\ \E pk \in DOMAIN store, s \in amounts :
        IF AmountDbValue(s).status # "ok"
        THEN /\ last' = [op |-> "update", status |-> AmountDbValue(s).status,
                         pk |-> pk, amount |-> s]
             /\ UNCHANGED store
        ELSE /\ store' = [store EXCEPT ![pk].amount = AmountDbValue(s).value]
             /\ last' = [op |-> "update", status |-> "ok", pk |-> pk, amount |-> s]
    /\ UNCHANGED <<decl, pc, table, defaulted, clock>>

\* expense.when = w; expense.save() on a stored row: an explicit value.
UpdateWhen(whens) ==
    /\ pc = "running"
    /\ \E pk \in DOMAIN store, w \in whens \ {Omitted} :
        /\ store' = [store EXCEPT ![pk].when = w[1]]
        /\ defaulted' = defaulted \ {pk}
        /\ last' = [op |-> "update", status |-> "ok", pk |-> pk, when |-> w]
    /\ UNCHANGED <<decl, pc, table, clock>>

\* Expense.objects.get(pk=pk): the instance built from the row; its tag is
\* the plain str read from the column.
Get ==
    /\ pc = "running"
    /\ \E pk \in DOMAIN store :
        last' = [op |-> "get", status |-> "ok", pk |-> pk,
                 tag |-> Str(store[pk].tag), amount |-> store[pk].amount,
                 when |-> store[pk].when]
    /\ UNCHANGED <<decl, pc, table, store, defaulted, clock>>

\* validate(candidate)
ValidateTag(tags) ==
    /\ pc = "running"
    /\ \E x \in tags :
        last' = [op |-> "validate", arg |-> x, result |-> Validate(table, x)]
    /\ UNCHANGED <<decl, pc, table, store, defaulted, clock>>

\* label_for(code): Tag(code).label
LabelFor(codes) ==
    /\ pc = "running"
    /\ \E c \in codes :
        last' = [op |-> "label_for", arg |-> c,
                 result |-> IF ByValue(table, c).status = "ok"
                            THEN [status |-> "ok", value |-> ByValue(table, c).value.label]
                            ELSE [status |-> ByValue(table, c).status]]
    /\ UNCHANGED <<decl, pc, table, store, defaulted, clock>>

\* code_for(name): Tag[name].value
CodeForResult(t, n) ==
    IF ByName(t, n).status = "ok"
    THEN [status |-> "ok", value |-> ByName(t, n).value.value]
    ELSE [status |-> ByName(t, n).status]

CodeFor(names) ==
    /\ pc = "running"
    /\ \E n \in names :
        last' = [op |-> "code_for", arg |-> n, result |-> CodeForResult(table, n)]
    /\ UNCHANGED <<decl, pc, table, store, defaulted, clock>>

\* The text of a member that is handed back to code_for: its label
\* (member.label) or its symbolic name (member.name).
LabelText(m) == m.label

NameTextAsLabel(m) == m.label

NameText(m) == m.name

\* code_for(label_for(code_for(c))) for a registered name c.
LabelRoundTrip ==
    /\ pc = "running"
    /\ \E m \in Members(table) :
        last' = [op |-> "label_round_trip", arg |-> m.name,
                 code |-> CodeForResult(table, m.name).value,
                 result |-> CodeForResult(table,
                     LabelText(ByValue(table, CodeForResult(table, m.name).value).value))]
    /\ UNCHANGED <<decl, pc, table, store, defaulted, clock>>

\* code_for(Tag(code_for(c)).name) for a registered name c.
NameRoundTrip ==
    /\ pc = "running"
    /\ \E m \in Members(table) :
        last' = [op |-> "name_round_trip", arg |-> m.name,
                 code |-> CodeForResult(table, m.name).value,
                 result |-> CodeForResult(table,
                     NameText(ByValue(table, CodeForResult(table, m.name).value).value))]
    /\ UNCHANGED <<decl, pc, table, store, defaulted, clock>>

\* all_categories(): Tag.choices
AllCategories ==
    /\ pc = "running"
    /\ last' = [op |-> "choices", result |-> Choices(table)]
    /\ UNCHANGED <<decl, pc, table, store, defaulted, clock>>

\* Time passes.
Tick ==
    /\ pc = "running"
    /\ clock < MaxClock
    /\ clock' = clock + 1
    /\ UNCHANGED <<decl, pc, table, store, defaulted, last>>

CodeInputs(t) == Values(t) \cup {<<"Z","Z">>, EmptyStr}

NameInputs(t) ==
    Names(t) \cup {t[i].label : i \in DOMAIN t} \cup {<<"F","U","E","L">>}

(***************************************************************************)
(* Spec: the process of the repository, Tag as declared in models.py.      *)
(* Records are written with the amount of tests.py and no when.            *)
(***************************************************************************)
Next ==
    \/ Create(TagInputs(table), {Amount1023}, {Omitted})
    \/ UpdateTag(TagInputs(table))
    \/ Get
    \/ ValidateTag(CandidateTags(table))
    \/ LabelFor(CodeInputs(table))
    \/ CodeFor(NameInputs(table))
    \/ LabelRoundTrip
    \/ NameRoundTrip
    \/ AllCategories

Spec == Init /\ [][Next]_vars

(***************************************************************************)
(* SpecAmount: records written with every candidate amount.                *)
(***************************************************************************)
NextAmount ==
    \/ Create({ByName(table, <<"F","O","O","D">>).value}, AmountInputs, {Omitted})
    \/ UpdateAmount(AmountInputs)
    \/ Get

SpecAmount == Init /\ [][NextAmount]_vars

(***************************************************************************)
(* SpecWhen: records written with and without a when, while time passes.   *)
(***************************************************************************)
NextWhen ==
    \/ Create({ByName(table, <<"F","O","O","D">>).value}, {Amount1023}, WhenInputs)
    \/ UpdateWhen(WhenInputs)
    \/ Get
    \/ Tick

SpecWhen == Init /\ [][NextWhen]_vars

(***************************************************************************)
(* SpecLoad: the import of a models.py whose Tag has a candidate class     *)
(* body, followed by the calls the loaded process accepts.                 *)
(***************************************************************************)
Food == <<"F","O","O","D">>

Feed == <<"F","E","E","D">>

Fuel == <<"F","U","E","L">>

Housing == <<"H","O","U","S","I","N","G">>

\* The table of the release that preceded CLOTHING.
TagDeclV1 ==
    << [name |-> Food, value |-> <<"F","D">>],
       [name |-> Housing, value |-> <<"H","S">>],
       [name |-> <<"T","R","A","N","S","P","O","R","T","A","T","I","O","N">>,
        value |-> <<"T","R">>],
       [name |-> <<"U","T","I","L","I","T","I","E","S">>, value |-> <<"U","T">>] >>

Declarations ==
    { TagDecl,
      TagDeclV1,
      << [name |-> Food, value |-> <<"F","D">>], [name |-> Housing, value |-> <<"H","S">>] >>,
      << [name |-> Food, value |-> <<"F","D">>], [name |-> Feed, value |-> <<"F","D">>] >>,
      << [name |-> Food, value |-> <<"F","D">>], [name |-> Housing, value |-> <<"H","S">>],
         [name |-> Fuel, value |-> <<"F","D">>] >>,
      << [name |-> Food, value |-> <<"F","D">>], [name |-> Food, value |-> <<"H","S">>] >> }

InitLoad ==
    /\ decl \in Declarations
    /\ pc = "loading"
    /\ table = <<>>
    /\ last = [op |-> "none"]
    /\ InitCommon

\* import expenses.models: the class statement of Tag runs; an exception it
\* raises ends the import, and no call on the module can follow.
Load ==
    /\ pc = "loading"
    /\ pc' = IF Construct(decl).status = "ok" THEN "running" ELSE "failed"
    /\ table' = Construct(decl).members
    /\ last' = [op |-> "load", status |-> Construct(decl).status]
    /\ UNCHANGED <<decl, store, defaulted, clock>>

NextLoad ==
    \/ Load
    \/ Create(TagInputs(table), {Amount1023}, {Omitted})
    \/ Get
    \/ ValidateTag(CandidateTags(table))
    \/ LabelFor(CodeInputs(table))
    \/ CodeFor(NameInputs(table))
    \/ AllCategories

SpecLoad == InitLoad /\ [][NextLoad]_vars

(***************************************************************************)
(* SpecEvolve: a process of the earlier release (TagDeclV1) writes rows;   *)
(* the release of models.py as it stands is then deployed on the same      *)
(* database, with no migration of the rows.                                *)
(***************************************************************************)
InitEvolve ==
    /\ decl = TagDeclV1
    /\ pc = "running"
    /\ table = Construct(decl).members
    /\ last = [op |-> "load", status |-> Construct(decl).status]
    /\ InitCommon

Upgrade ==
    /\ pc = "running"
    /\ decl = TagDeclV1
    /\ decl' = TagDecl
    /\ pc' = IF Construct(TagDecl).status = "ok" THEN "running" ELSE "failed"
    /\ table' = Construct(TagDecl).members
    /\ last' = [op |-> "upgrade", status |-> Construct(TagDecl).status]
    /\ UNCHANGED <<store, defaulted, clock>>

NextEvolve ==
    \/ Upgrade
    \/ Create(TagInputs(table), {Amount1023}, {Omitted})
    \/ Get
    \/ ValidateTag(CandidateTags(table))
    \/ LabelFor(CodeInputs(table))

SpecEvolve == InitEvolve /\ [][NextEvolve]_vars

(***************************************************************************)
(* Claims.                                                                 *)
(***************************************************************************)
CL == <<"C","L">>
FD == <<"F","D">>
HS == <<"H","S">>
TR == <<"T","R">>
UT == <<"U","T">>
ZZ == <<"Z","Z">>

\* C1: after any sequence of record writes, the tag of every stored row is
\* one of the registered stored codes; a write with another tag is rejected
\* before it reaches the store.
C1_StoredTagsRegistered ==
    \A pk \in DOMAIN store : store[pk].tag \in {CL, FD, HS, TR, UT}

\* C2: for every registered category c, a successful create with tag=c
\* stores the code of c (FOOD is stored as "FD"), and the tag of the created
\* instance and the tag of the row read back are both equal to c.
C2_CreateStoresCode ==
    \A m \in Members(table) :
        (last.op = "create" /\ last.status = "ok" /\ last.tag = m) =>
            /\ store[last.pk].tag = m.value
            /\ (m.name = Food => store[last.pk].tag = FD)
            /\ PyEq(last.tag, m)
            /\ PyEq(Str(store[last.pk].tag), m)

C2_Witness ==
    /\ last.op = "create"
    /\ last.status = "ok"
    /\ last.tag \in Members(table)
    /\ last.tag.name = Food
    /\ last.amount = Amount1023
    /\ store[last.pk].tag = FD

\* C3: validate of a code outside the table fails with an error that is
\* handed to the caller and carries no substitute category; validate of a
\* code in the table returns the category of that code; neither the table
\* nor any stored row changes.
C3_ValidateReports ==
    [][last'.op = "validate" =>
        /\ store' = store
        /\ table' = table
        /\ (StrOf(last'.arg) \notin Values(table) =>
                /\ last'.result.status = "ValidationError"
                /\ DOMAIN last'.result = {"status", "code"})
        /\ (StrOf(last'.arg) \in Values(table) =>
                /\ last'.result.status = "ok"
                /\ last'.result.value \in Members(table)
                /\ last'.result.value.value = StrOf(last'.arg))]_vars

C3_Witness ==
    /\ last.op = "validate"
    /\ last.arg = Str(ZZ)
    /\ last.result.status = "ValidationError"
    /\ store # <<>>

\* C4: in the table without CLOTHING validate("CL") fails; once the table
\* is extended with CLOTHING:CL validate("CL") succeeds, and every row stored
\* before with code FD, HS, TR or UT is unchanged, validates, and maps to the
\* symbolic name it mapped to before.
C4_AdditiveEvolution ==
    [][decl' # decl =>
        /\ Validate(table, Str(CL)).status = "ValidationError"
        /\ Validate(table', Str(CL)).status = "ok"
        /\ store' = store
        /\ \A pk \in DOMAIN store :
            store[pk].tag \in {FD, HS, TR, UT} =>
                /\ Validate(table, Str(store[pk].tag)).status = "ok"
                /\ Validate(table', Str(store'[pk].tag)).status = "ok"
                /\ Validate(table', Str(store'[pk].tag)).value.name
                     = Validate(table, Str(store[pk].tag)).value.name]_vars

C4_Witness ==
    /\ last.op = "upgrade"
    /\ last.status = "ok"
    /\ Len(store) = MaxRecords
    /\ store[1].tag = FD
    /\ Validate(table, Str(CL)).status = "ok"

\* C5: a class body in which two different names share one stored code is
\* refused when the table is constructed, before any validate, lookup or
\* write runs: no reachable table maps one stored code to two names.
C5_DuplicateCodeRefused ==
    /\ \A i, j \in DOMAIN table : table[i].value = table[j].value => i = j
    /\ (\E i, j \in DOMAIN decl : decl[i].value = decl[j].value
                                   /\ decl[i].name # decl[j].name) =>
            /\ pc # "running"
            /\ table = <<>>
            /\ store = <<>>
            /\ last.op \in {"none", "load"}
            /\ (pc = "failed" => last.status = "ValueError")

C5_Witness ==
    /\ pc = "failed"
    /\ last.status = "ValueError"
    /\ \E i, j \in DOMAIN decl : decl[i].value = decl[j].value /\ decl[i].name # decl[j].name

\* C6 as stated: for every registered category c,
\* code_for(label_for(code_for(c))) = code_for(c).
C6_LabelRoundTrip ==
    last.op = "label_round_trip" =>
        last.result.status = "ok" /\ last.result.value = last.code

\* C6 as amended: for every registered category c, code_for of the symbolic
\* name of the member with code code_for(c) is code_for(c); code_for of its
\* label fails, the label not being a registered symbolic name.
C6_NameRoundTrip ==
    /\ last.op = "name_round_trip" =>
            last.result.status = "ok" /\ last.result.value = last.code
    /\ last.op = "label_round_trip" => last.result.status = "KeyError"

C6_Witness ==
    /\ last.op = "name_round_trip"
    /\ last.arg = Food
    /\ last.code = FD
    /\ last.result.status = "ok"

\* C7: all_categories() returns the registered categories, each once, in
\* declaration order (CLOTHING, FOOD, HOUSING, TRANSPORTATION, UTILITIES),
\* whatever validate, lookup or write came before it, so any two calls
\* return the same sequence.
C7_ChoicesInDeclarationOrder ==
    last.op = "choices" =>
        /\ [i \in DOMAIN last.result |-> last.result[i][1]] = <<CL, FD, HS, TR, UT>>
        /\ \A i \in DOMAIN last.result :
            ByValue(table, last.result[i][1]).value.name = TagDecl[i].name
        /\ last.result[2][2] = <<"F","o","o","d">>

C7_Witness ==
    /\ last.op = "choices"
    /\ Len(last.result) = Len(TagDecl)
    /\ Len(store) = MaxRecords
    /\ store[1].tag = ZZ

\* C8: no validate, lookup, enumeration or record write changes the table:
\* in every reachable state it is the table established at load time.
C8_TableImmutable ==
    /\ decl = TagDecl
    /\ table = Construct(TagDecl).members

C8_Witness ==
    /\ Len(store) = MaxRecords
    /\ store[1].tag = ZZ
    /\ last.op = "update"
    /\ last.status = "ok"
    /\ Len(table) = Len(TagDecl)

\* C9: every stored amount is a fixed-point decimal with 2 fractional digits
\* and at most 20 digits; a create with amount "10.23" stores exactly 10.23.
IsFixedPoint(a, places, digits) ==
    LET body == IF Len(a) > 0 /\ a[1] = "-" THEN Tail(a) ELSE a
        dot  == Len(body) - places
    IN  /\ Len(body) >= places + 2
        /\ body[dot] = "."
        /\ \A i \in DOMAIN body : i # dot => IsDigit(body[i])
        /\ Len(body) - 1 <= digits

C9_AmountFixedPoint ==
    /\ \A pk \in DOMAIN store : IsFixedPoint(store[pk].amount, 2, 20)
    /\ (last.op \in {"create", "update"} /\ last.status = "ok"
        /\ last.amount = <<"1","0",".","2","3">>) =>
            store[last.pk].amount = <<"1","0",".","2","3">>

C9_Witness ==
    /\ Len(store) = MaxRecords
    /\ store[1].amount = Nines(18) \o <<".","9","9">>
    /\ last.op = "create"
    /\ last.status = "ok"
    /\ last.amount = <<"1","0",".","2","3","5">>
    /\ store[last.pk].amount = <<"1","0",".","2","4">>

\* C10: a create without a when stores the clock value of the moment of that
\* create, so it is never earlier than the default when of a row created
\* before; a create with an explicit when stores that when.
C10_DefaultWhenPerCreate ==
    [][Len(store') > Len(store) =>
        /\ last'.when = Omitted =>
            /\ store'[Len(store')].when = clock
            /\ \A pk \in defaulted : store[pk].when <= store'[Len(store')].when
        /\ last'.when # Omitted => store'[Len(store')].when = last'.when[1]]_vars

C10_Witness ==
    /\ Len(store) >= 2
    /\ {1, 2} \subseteq defaulted
    /\ store[1].when < store[2].when
    /\ last.op = "create"
    /\ last.when = Omitted

====
